---------------------------- MODULE Spec2Model ----------------------------
(***************************************************************************)
(* Model of Labs/Lab1/ok/client/utils/encryption.py: a thin wrapper around *)
(* pyaes (AES in counter mode) with a text-safe base32 codec, a key        *)
(* pattern, NUL padding and a header that marks encrypted text.            *)
(*                                                                         *)
(* Representation.  A Python str is a sequence of code points (integers),  *)
(* a Python bytes object is a sequence of integers in 0..255.  The result  *)
(* of a call is a record: exc = "" and val = the returned value, or exc =  *)
(* the class of the exception raised and msg = its message.                *)
(***************************************************************************)
EXTENDS Integers, Sequences, FiniteSets, TLC

\* Code points used to write the literals of the source.
CH ==
    [nul |-> 0, nl |-> 10, space |-> 32, dash |-> 45, zero |-> 48, one |-> 49,
     two |-> 50, seven |-> 55, nine |-> 57, eq |-> 61, A |-> 65, Z |-> 90,
     a |-> 97, b |-> 98, h |-> 104, p |-> 112, s |-> 115, z |-> 122,
     eacute |-> 233, cjk |-> 20013, surrogate |-> 55296]

Rep(c, n) == [i \in 1..n |-> c]

RECURSIVE Concat(_)
Concat(ss) == IF ss = <<>> THEN <<>> ELSE Head(ss) \o Concat(Tail(ss))

Return(v) == [exc |-> "", msg |-> "", val |-> v]

Raise(cls, m) == [exc |-> cls, msg |-> m, val |-> <<>>]

Raised(r) == r.exc # ""

(***************************************************************************)
(* The exceptions the module raises itself: the class and the message.     *)
(* The other errors come from the standard library (UnicodeEncodeError,    *)
(* UnicodeDecodeError, binascii.Error: all subclasses of ValueError) and   *)
(* from pyaes (ValueError for a key of the wrong size).                    *)
(***************************************************************************)
\* Line 52: raise ValueError("Cannot pad data of length {} to size {}")
PaddingError == Raise("ValueError", "Cannot pad data")

\* Line 84: raise ValueError("Invalid ciphertext: does not start with the header")
FormatError == Raise("ValueError", "Invalid ciphertext: does not start with the header")

\* Lines 90, 109-110: raise InvalidKeyException
InvalidKeyError == Raise("InvalidKeyException", "")

\* Classes of the errors of the codecs (base32, ASCII, UTF-8).
DecodingErrorClasses == {"binascii.Error", "UnicodeDecodeError", "UnicodeEncodeError"}

(***************************************************************************)
(* Module constants (lines 12-18).                                         *)
(***************************************************************************)
HEADER_TEXT ==
    <<79, 75, 80, 89, 32, 69, 78, 67, 82, 89, 80, 84, 69, 68, 32, 70, 73, 76,
      69, 32, 70, 79, 76, 76, 79, 87, 83, 10>>      \* "OKPY ENCRYPTED FILE FOLLOWS\n"
    \o Rep(CH.dash, 100) \o <<CH.nl>>

PLAINTEXT_PADDING == Rep(CH.zero, 16)               \* b"0" * 16

\* The character class [a-z2-7] of KEY_PATTERN.
KeyChar(c) == (c >= CH.a /\ c <= CH.z) \/ (c >= CH.two /\ c <= CH.seven)

\* re: KEY_PATTERN = [a-z2-7]{52}9999 matches in s starting at index i (1-based);
\* the pattern has a fixed length, so a match at i always ends at i + 55.
KEY_PATTERN(s, i) ==
    /\ i >= 1
    /\ i + 55 <= Len(s)
    /\ \A j \in 0..51 : KeyChar(s[i + j])
    /\ \A j \in 52..55 : s[i + j] = CH.nine

(***************************************************************************)
(* str and bytes primitives of Python used by the module.                  *)
(***************************************************************************)
startswith(s, prefix) ==
    /\ Len(s) >= Len(prefix)
    /\ SubSeq(s, 1, Len(prefix)) = prefix

\* s[n:]
DropFirst(s, n) == SubSeq(s, n + 1, Len(s))

replace(s, old, new) == [i \in 1..Len(s) |-> IF s[i] = old THEN new ELSE s[i]]

\* str.upper / str.lower: exact on ASCII and on code points without a case
\* mapping (the only ones the model passes to them).
upper(s) ==
    [i \in 1..Len(s) |-> IF s[i] >= CH.a /\ s[i] <= CH.z THEN s[i] - 32 ELSE s[i]]

lower(s) ==
    [i \in 1..Len(s) |-> IF s[i] >= CH.A /\ s[i] <= CH.Z THEN s[i] + 32 ELSE s[i]]

\* bytes.rstrip(b"\0")
RECURSIVE rstrip_nul(_)
rstrip_nul(bs) ==
    IF bs # <<>> /\ bs[Len(bs)] = 0
    THEN rstrip_nul(SubSeq(bs, 1, Len(bs) - 1))
    ELSE bs

\* bytes.rstrip(b"=")
RECURSIVE rstrip_eq(_)
rstrip_eq(s) ==
    IF s # <<>> /\ s[Len(s)] = CH.eq
    THEN rstrip_eq(SubSeq(s, 1, Len(s) - 1))
    ELSE s

\* str.encode('ascii'): UnicodeEncodeError on a code point above 127.
encode_ascii(s) ==
    IF \E i \in 1..Len(s) : s[i] > 127
    THEN Raise("UnicodeEncodeError", "'ascii' codec can't encode")
    ELSE Return(s)

\* UTF-8 bytes of one code point (strict: surrogates are not encodable).
Utf8Char(c) ==
    IF c < 128 THEN <<c>>
    ELSE IF c < 2048 THEN <<192 + (c \div 64), 128 + (c % 64)>>
    ELSE IF c < 65536
    THEN <<224 + (c \div 4096), 128 + ((c \div 64) % 64), 128 + (c % 64)>>
    ELSE <<240 + (c \div 262144), 128 + ((c \div 4096) % 64),
           128 + ((c \div 64) % 64), 128 + (c % 64)>>

IsSurrogate(c) == c >= 55296 /\ c <= 57343

\* str.encode('utf-8')
encode_utf8(s) ==
    IF \E i \in 1..Len(s) : IsSurrogate(s[i])
    THEN Raise("UnicodeEncodeError", "surrogates not allowed")
    ELSE Return(Concat([i \in 1..Len(s) |-> Utf8Char(s[i])]))

IsCont(bs, i) == i <= Len(bs) /\ bs[i] >= 128 /\ bs[i] <= 191

\* Length of the well-formed UTF-8 sequence that starts at bs[i], 0 if none.
Utf8SeqLen(bs, i) ==
    LET b0 == bs[i]
        b1 == IF i + 1 <= Len(bs) THEN bs[i + 1] ELSE -1
    IN  IF b0 < 128 THEN 1
        ELSE IF b0 >= 194 /\ b0 <= 223
        THEN IF IsCont(bs, i + 1) THEN 2 ELSE 0
        ELSE IF b0 >= 224 /\ b0 <= 239
        THEN IF /\ IsCont(bs, i + 1)
                /\ IsCont(bs, i + 2)
                /\ (b0 = 224 => b1 >= 160)
                /\ (b0 = 237 => b1 <= 159)
             THEN 3 ELSE 0
        ELSE IF b0 >= 240 /\ b0 <= 244
        THEN IF /\ IsCont(bs, i + 1)
                /\ IsCont(bs, i + 2)
                /\ IsCont(bs, i + 3)
                /\ (b0 = 240 => b1 >= 144)
                /\ (b0 = 244 => b1 <= 143)
             THEN 4 ELSE 0
        ELSE 0

Utf8CodePoint(bs, i, n) ==
    IF n = 1 THEN bs[i]
    ELSE IF n = 2 THEN (bs[i] - 192) * 64 + (bs[i + 1] - 128)
    ELSE IF n = 3
    THEN (bs[i] - 224) * 4096 + (bs[i + 1] - 128) * 64 + (bs[i + 2] - 128)
    ELSE (bs[i] - 240) * 262144 + (bs[i + 1] - 128) * 4096
         + (bs[i + 2] - 128) * 64 + (bs[i + 3] - 128)

\* bytes.decode('utf-8'), from index i on, appended to acc.
RECURSIVE decode_utf8_from(_, _, _)
decode_utf8_from(bs, i, acc) ==
    IF i > Len(bs) THEN Return(acc)
    ELSE LET n == Utf8SeqLen(bs, i)
         IN  IF n = 0
             THEN Raise("UnicodeDecodeError", "'utf-8' codec can't decode")
             ELSE decode_utf8_from(bs, i + n, Append(acc, Utf8CodePoint(bs, i, n)))

decode_utf8(bs) == decode_utf8_from(bs, 1, <<>>)

(***************************************************************************)
(* State.  The module keeps no state of its own; the variables record the  *)
(* last call a client made (op, arg, ret), the call whose result it was    *)
(* fed (prev), the counter-mode cipher object the last call constructed    *)
(* and used (cipherObj), and the sequence of calls observed (hist).        *)
(***************************************************************************)
VARIABLES op, arg, ret, prev, cipherObj, hist

vars == <<op, arg, ret, prev, cipherObj, hist>>

(***************************************************************************)
(* base64.b32encode / base64.b32decode (standard library), as used at      *)
(* lines 98 and 102.                                                       *)
(***************************************************************************)
B32Alphabet ==
    <<65, 66, 67, 68, 69, 70, 71, 72, 73, 74, 75, 76, 77, 78, 79, 80, 81, 82,
      83, 84, 85, 86, 87, 88, 89, 90, 50, 51, 52, 53, 54, 55>>

IsB32Digit(c) == (c >= CH.A /\ c <= CH.Z) \/ (c >= CH.two /\ c <= CH.seven)

B32Index(c) == IF c >= CH.A THEN c - CH.A ELSE c - CH.two + 26

At0(s, i) == IF i >= 1 /\ i <= Len(s) THEN s[i] ELSE 0

\* s[q * size : (q + 1) * size]
Quantum(s, q, size) ==
    SubSeq(s, q * size + 1, IF (q + 1) * size < Len(s) THEN (q + 1) * size ELSE Len(s))

\* The j-th (0..7) 5-bit group of the 40 bits of the five bytes q.
B32Group(q, j) ==
    LET k == (5 * j) \div 8
        o == (5 * j) % 8
        w == At0(q, k + 1) * 256 + At0(q, k + 2)
    IN  (w \div (2 ^ (11 - o))) % 32

\* The j-th (0..4) byte of the 40 bits of the 5-bit values v (zero filled).
B32Byte(v, j) ==
    LET k == (8 * j) \div 5
        o == (8 * j) % 5
        w == At0(v, k + 1) * 1024 + At0(v, k + 2) * 32 + At0(v, k + 3)
    IN  (w \div (2 ^ (7 - o))) % 256

\* Pad characters that replace the tail of the last quantum.
B32PadChars(leftover) ==
    CASE leftover = 0 -> 0
      [] leftover = 1 -> 6
      [] leftover = 2 -> 4
      [] leftover = 3 -> 3
      [] leftover = 4 -> 1

b32encode(bs) ==
    LET leftover == Len(bs) % 5
        nq == (Len(bs) + 4) \div 5
        full == [i \in 1..(8 * nq) |->
                    B32Alphabet[B32Group(Quantum(bs, (i - 1) \div 8, 5), (i - 1) % 8) + 1]]
        npad == B32PadChars(leftover)
    IN  [i \in 1..(8 * nq) |-> IF i > 8 * nq - npad THEN CH.eq ELSE full[i]]

\* Bytes that a last quantum ending in padchars pad characters carries.
B32Leftover(padchars) == (43 - 5 * padchars) \div 8

b32decode(s) ==
    LET l == Len(s)
        stripped == rstrip_eq(s)
        padchars == l - Len(stripped)
        n == Len(stripped)
        nq == (n + 7) \div 8
        v == [i \in 1..n |-> B32Index(stripped[i])]
        nbytes == IF padchars > 0 /\ nq > 0
                  THEN 5 * (nq - 1) + B32Leftover(padchars)
                  ELSE 5 * nq
    IN  IF l % 8 # 0 THEN Raise("binascii.Error", "Incorrect padding")
        ELSE IF \E i \in 1..n : ~IsB32Digit(stripped[i])
        THEN Raise("binascii.Error", "Non-base32 digit found")
        ELSE IF padchars \notin {0, 1, 3, 4, 6}
        THEN Raise("binascii.Error", "Incorrect padding")
        ELSE Return([i \in 1..nbytes |->
                        B32Byte(Quantum(v, (i - 1) \div 5, 8), (i - 1) % 5)])

(***************************************************************************)
(* Text-safety codec (lines 96-102).                                       *)
(***************************************************************************)
\* The "=" padding left in place.
to_safe_string_no_replace(unsafe_bytes) == lower(b32encode(unsafe_bytes))

\* use 9 instead of = for padding
to_safe_string(unsafe_bytes) == lower(replace(b32encode(unsafe_bytes), CH.eq, CH.nine))

\* The upper-casing forgotten.
from_safe_string_no_upper(safe_string) ==
    LET ascii == encode_ascii(replace(safe_string, CH.nine, CH.eq))
    IN  IF Raised(ascii) THEN ascii ELSE b32decode(ascii.val)

from_safe_string(safe_string) ==
    LET ascii == encode_ascii(replace(upper(safe_string), CH.nine, CH.eq))
    IN  IF Raised(ascii) THEN ascii ELSE b32decode(ascii.val)

(***************************************************************************)
(* Key management (lines 21-39).                                           *)
(***************************************************************************)
\* os.urandom(32) is the input urandom32 of the call.
generate_key(urandom32) == to_safe_string(urandom32)

\* re: "$" (no MULTILINE) matches at the end of the string and just before a
\* newline that is the last character of the string.
DollarMatches(s, i) == i = Len(s) + 1 \/ (i = Len(s) /\ s[i] = CH.nl)

\* re.match("^" + KEY_PATTERN + "$", key) is not None
is_valid_key(key) == KEY_PATTERN(key, 1) /\ DollarMatches(key, 57)

\* Positions of the document at which KEY_PATTERN matches.
MatchPositions(document) == {i \in 1..Len(document) : KEY_PATTERN(document, i)}

Min(S) == CHOOSE x \in S : \A y \in S : x <= y

\* re.findall(KEY_PATTERN, document): the leftmost match at or after i, then
\* the scan resumes at the end of that match.
RECURSIVE findall_from(_, _, _)
findall_from(document, matches, i) ==
    LET ahead == {j \in matches : j >= i}
    IN  IF ahead = {} THEN <<>>
        ELSE <<SubSeq(document, Min(ahead), Min(ahead) + 55)>>
             \o findall_from(document, matches, Min(ahead) + 56)

get_keys(document) == findall_from(document, MatchPositions(document), 1)

(***************************************************************************)
(* Padding (lines 42-60).  to_length is <<>> for None, <<n>> for n.        *)
(***************************************************************************)
None == <<>>

\* Off by one: data of exactly to_length bytes refused.
encode_and_pad_strict(data, to_length) ==
    LET encoded == encode_utf8(data)
    IN  IF Raised(encoded) THEN encoded
        ELSE IF to_length = None THEN encoded
        ELSE IF Len(encoded.val) >= to_length[1]
        THEN PaddingError
        ELSE Return(encoded.val \o Rep(0, to_length[1] - Len(encoded.val)))

encode_and_pad(data, to_length) ==
    LET encoded == encode_utf8(data)
    IN  IF Raised(encoded) THEN encoded
        ELSE IF to_length = None THEN encoded
        ELSE IF Len(encoded.val) > to_length[1]
        THEN PaddingError
        ELSE Return(encoded.val \o Rep(0, to_length[1] - Len(encoded.val)))

un_pad_and_decode(padded) == decode_utf8(rstrip_nul(padded))

(***************************************************************************)
(* pyaes.AESModeOfOperationCTR (external library, imported at line 10).    *)
(* A cipher object holds the key, the counter (pyaes.Counter starts at 1)  *)
(* and the unused bytes of the last keystream block.  The AES block        *)
(* function itself is outside the module; AESBlock stands for it: a keyed  *)
(* function of the counter in which every key byte changes every byte of   *)
(* the block.                                                              *)
(***************************************************************************)
RECURSIVE Xor(_, _)
Xor(x, y) ==
    IF x = 0 THEN y
    ELSE IF y = 0 THEN x
    ELSE ((x + y) % 2) + 2 * Xor(x \div 2, y \div 2)

RECURSIVE KeyMix(_, _, _)
KeyMix(key, i, j) ==
    IF j > Len(key) THEN 0
    ELSE (key[j] * (2 * ((i * j) % 7) + 1) + KeyMix(key, i, j + 1)) % 256

AESBlock(key, counter) ==
    [i \in 1..16 |-> (KeyMix(key, i, 1) + 131 * counter + 7 * i) % 256]

\* No cipher object has been constructed yet.
NoCipher == [key |-> <<>>, counter |-> 0, remaining |-> <<>>]

AESModeOfOperationCTR(key) ==
    IF Len(key) \notin {16, 24, 32}
    THEN Raise("ValueError", "Invalid key size")
    ELSE Return([key |-> key, counter |-> 1, remaining |-> <<>>])

\* The loop of AESModeOfOperationCTR.encrypt that extends the keystream.
RECURSIVE FillKeystream(_, _)
FillKeystream(c, n) ==
    IF Len(c.remaining) < n
    THEN FillKeystream([c EXCEPT !.remaining = @ \o AESBlock(c.key, c.counter),
                                 !.counter = @ + 1], n)
    ELSE c

\* cipher.encrypt(text) (decrypt is the same function): the output and the
\* cipher object as the call leaves it.
CTRCrypt(c, text) ==
    LET f == FillKeystream(c, Len(text))
    IN  [out |-> [i \in 1..Len(text) |-> Xor(text[i], f.remaining[i])],
         cipher |-> [f EXCEPT !.remaining = DropFirst(@, Len(text))]]

\* A cached cipher object handed out again when the key is the same.
aes_mode_of_operation_cached(key) ==
    LET k == from_safe_string(key)
    IN  IF Raised(k) THEN k
        ELSE IF cipherObj # NoCipher /\ cipherObj.key = k.val
        THEN Return(cipherObj)
        ELSE AESModeOfOperationCTR(k.val)

\* Lines 105-106: a new cipher object on every call.
aes_mode_of_operation(key) ==
    LET k == from_safe_string(key)
    IN  IF Raised(k) THEN k ELSE AESModeOfOperationCTR(k.val)

(***************************************************************************)
(* encrypt / is_encrypted / decrypt (lines 63-93).  The *_run operators    *)
(* give the result of the call and the cipher object it constructed, as    *)
(* the call leaves it (NoCipher when the call constructed none).           *)
(***************************************************************************)
encrypt_run(data, key, pad_length) ==
    LET padded == encode_and_pad(data, pad_length)
        cipher == aes_mode_of_operation(key)
        run == CTRCrypt(cipher.val, PLAINTEXT_PADDING \o padded.val)
    IN  IF Raised(padded) THEN [ret |-> padded, cipher |-> NoCipher]
        ELSE IF Raised(cipher) THEN [ret |-> cipher, cipher |-> NoCipher]
        ELSE [ret |-> Return(HEADER_TEXT \o to_safe_string(run.out)),
              cipher |-> run.cipher]

encrypt(data, key, pad_length) == encrypt_run(data, key, pad_length).ret

is_encrypted(encoded_ciphertext) == startswith(encoded_ciphertext, HEADER_TEXT)

\* The cipher keyed before the header is looked at.
decrypt_run_key_first(encoded_ciphertext, key) ==
    LET body == from_safe_string(DropFirst(encoded_ciphertext, Len(HEADER_TEXT)))
        cipher == aes_mode_of_operation(key)
        run == CTRCrypt(cipher.val, body.val)
    IN  IF Raised(cipher) THEN [ret |-> cipher, cipher |-> NoCipher]
        ELSE IF ~startswith(encoded_ciphertext, HEADER_TEXT)
        THEN [ret |-> FormatError, cipher |-> NoCipher]
        ELSE IF Raised(body) THEN [ret |-> body, cipher |-> NoCipher]
        ELSE IF ~startswith(run.out, PLAINTEXT_PADDING)
        THEN [ret |-> InvalidKeyError, cipher |-> run.cipher]
        ELSE [ret |-> un_pad_and_decode(DropFirst(run.out, Len(PLAINTEXT_PADDING))),
              cipher |-> run.cipher]

decrypt_run(encoded_ciphertext, key) ==
    LET body == from_safe_string(DropFirst(encoded_ciphertext, Len(HEADER_TEXT)))
        cipher == aes_mode_of_operation(key)
        run == CTRCrypt(cipher.val, body.val)
    IN  IF ~startswith(encoded_ciphertext, HEADER_TEXT)
        THEN [ret |-> FormatError, cipher |-> NoCipher]
        ELSE IF Raised(body) THEN [ret |-> body, cipher |-> NoCipher]
        ELSE IF Raised(cipher) THEN [ret |-> cipher, cipher |-> NoCipher]
        ELSE IF ~startswith(run.out, PLAINTEXT_PADDING)
        THEN [ret |-> InvalidKeyError, cipher |-> run.cipher]
        ELSE [ret |-> un_pad_and_decode(DropFirst(run.out, Len(PLAINTEXT_PADDING))),
              cipher |-> run.cipher]

decrypt(encoded_ciphertext, key) == decrypt_run(encoded_ciphertext, key).ret

(***************************************************************************)
(* Bounds and the inputs a client draws from.                              *)
(***************************************************************************)
MaxText == 2

MaxPad == 3

MaxBytes == 5

MaxPieces == 3

MaxCalls == 3

SeqsUpTo(S, n) == UNION {[1..k -> S] : k \in 0..n}

KeyZero == Rep(CH.a, 52) \o Rep(CH.nine, 4)

\* Differs from KeyZero in the four unused low bits of the 52nd character.
KeyNonCanonical == Rep(CH.a, 51) \o <<CH.b>> \o Rep(CH.nine, 4)

KeyOther == <<CH.b>> \o Rep(CH.a, 51) \o Rep(CH.nine, 4)

KeyNewline == KeyZero \o <<CH.nl>>

KeyUpper == Rep(CH.A, 52) \o Rep(CH.nine, 4)

KeyShort == Rep(CH.a, 51) \o Rep(CH.nine, 4)

\* Decodes to 16 bytes: a usable AES-128 key that is not of the key pattern.
Key128 == Rep(CH.a, 26) \o Rep(CH.nine, 6)

\* Decodes to 5 bytes: not an AES key size.
KeyFiveBytes == Rep(CH.a, 8)

Keys ==
    {KeyZero, KeyNonCanonical, KeyOther, KeyNewline, KeyUpper, KeyShort,
     Key128, KeyFiveBytes}

KeyCandidates ==
    Keys \cup {<<>>, <<CH.space>> \o KeyZero, KeyZero \o <<CH.nine>>,
               KeyZero \o <<CH.nl, CH.nl>>, KeyZero \o <<CH.space>>,
               Rep(CH.seven, 52) \o Rep(CH.nine, 4),
               Rep(CH.one, 52) \o Rep(CH.nine, 4),
               Rep(CH.a, 52) \o Rep(CH.eq, 4),
               Rep(CH.a, 53) \o Rep(CH.nine, 3)}

Texts ==
    SeqsUpTo({CH.h, CH.nul, CH.eacute}, MaxText)
    \cup {PLAINTEXT_PADDING, PLAINTEXT_PADDING \o <<CH.h>>, <<CH.cjk>>,
          <<CH.h, CH.h, CH.h, CH.eacute>>, <<CH.surrogate>>}

Pads == {None} \cup {<<n>> : n \in 0..MaxPad}

ByteSeqs == SeqsUpTo({0, 48, 155, 255}, MaxBytes)

\* Values of os.urandom(32).
Random32 ==
    {[i \in 1..32 |-> IF i = q THEN x ELSE y] :
        q \in {1, 5, 31, 32}, x \in {0, 1, 90, 255}, y \in {0, 255}}

SafeStrings ==
    KeyCandidates \cup {Rep(CH.a, 8), Rep(CH.a, 7) \o <<CH.nine>>,
                        Rep(CH.a, 6) \o Rep(CH.nine, 2), Rep(CH.nine, 8),
                        Rep(CH.a, 7) \o <<CH.one>>, Rep(CH.cjk, 8),
                        <<CH.a, CH.nine>> \o Rep(CH.a, 6), Rep(CH.A, 8)}

Pieces ==
    {<<CH.p, CH.space>>, <<CH.space, CH.s>>, <<CH.a>>, <<CH.nine>>,
     KeyZero, KeyOther, KeyNewline}

Documents == SeqsUpTo(Pieces, MaxPieces)

\* An encoded ciphertext as a client may hand it back.
Tamper(encoded) ==
    {encoded, DropFirst(encoded, 1), SubSeq(encoded, 1, Len(encoded) - 8),
     encoded \o <<CH.a>>}

CraftedCiphertexts ==
    {<<>>, <<CH.h>>, HEADER_TEXT, SubSeq(HEADER_TEXT, 1, Len(HEADER_TEXT) - 1),
     HEADER_TEXT \o Rep(CH.a, 7) \o <<CH.one>>, <<CH.space>> \o HEADER_TEXT}

(***************************************************************************)
(* The calls.                                                              *)
(***************************************************************************)
NoCall == [op |-> "", arg |-> <<>>, ret |-> Return(<<>>)]

Last == [op |-> op, arg |-> arg, ret |-> ret]

Init ==
    /\ op = ""
    /\ arg = <<>>
    /\ ret = Return(<<>>)
    /\ prev = NoCall
    /\ cipherObj = NoCipher
    /\ hist = <<>>

GenerateKeyCall(urandom32) ==
    /\ op' = "generate_key"
    /\ arg' = [urandom |-> urandom32]
    /\ ret' = Return(generate_key(urandom32))
    /\ prev' = NoCall
    /\ cipherObj' = NoCipher

IsValidKeyCall(key, from) ==
    /\ op' = "is_valid_key"
    /\ arg' = [key |-> key]
    /\ ret' = Return(is_valid_key(key))
    /\ prev' = from
    /\ cipherObj' = NoCipher

GetKeysCall(pieces) ==
    /\ op' = "get_keys"
    /\ arg' = [pieces |-> pieces]
    /\ ret' = Return(get_keys(Concat(pieces)))
    /\ prev' = NoCall
    /\ cipherObj' = NoCipher

ToSafeStringCall(unsafe_bytes) ==
    /\ op' = "to_safe_string"
    /\ arg' = [unsafe_bytes |-> unsafe_bytes]
    /\ ret' = Return(to_safe_string(unsafe_bytes))
    /\ prev' = NoCall
    /\ cipherObj' = NoCipher

FromSafeStringCall(safe_string, from) ==
    /\ op' = "from_safe_string"
    /\ arg' = [safe_string |-> safe_string]
    /\ ret' = from_safe_string(safe_string)
    /\ prev' = from
    /\ cipherObj' = NoCipher

EncryptCall(data, key, pad_length, from) ==
    LET r == encrypt_run(data, key, pad_length)
    IN  /\ op' = "encrypt"
        /\ arg' = [data |-> data, key |-> key, pad_length |-> pad_length]
        /\ ret' = r.ret
        /\ prev' = from
        /\ cipherObj' = r.cipher

IsEncryptedCall(encoded_ciphertext, from) ==
    /\ op' = "is_encrypted"
    /\ arg' = [encoded_ciphertext |-> encoded_ciphertext]
    /\ ret' = Return(is_encrypted(encoded_ciphertext))
    /\ prev' = from
    /\ cipherObj' = NoCipher

DecryptCall(encoded_ciphertext, key, from) ==
    LET r == decrypt_run(encoded_ciphertext, key)
    IN  /\ op' = "decrypt"
        /\ arg' = [encoded_ciphertext |-> encoded_ciphertext, key |-> key]
        /\ ret' = r.ret
        /\ prev' = from
        /\ cipherObj' = r.cipher

\* A client session: a first call on inputs of its choice, then calls that
\* are fed the result of the call before.
Fresh == op = ""

GenerateKey ==
    /\ Fresh
    /\ \E u \in Random32 : GenerateKeyCall(u)
    /\ UNCHANGED hist

IsValidKey ==
    /\ Fresh
    /\ \E k \in KeyCandidates : IsValidKeyCall(k, NoCall)
    /\ UNCHANGED hist

IsValidKeyGenerated ==
    /\ op = "generate_key"
    /\ IsValidKeyCall(ret.val, Last)
    /\ UNCHANGED hist

GetKeys ==
    /\ Fresh
    /\ \E ps \in Documents : GetKeysCall(ps)
    /\ UNCHANGED hist

ToSafeString ==
    /\ Fresh
    /\ \E b \in ByteSeqs : ToSafeStringCall(b)
    /\ UNCHANGED hist

FromSafeString ==
    /\ Fresh
    /\ \E s \in SafeStrings : FromSafeStringCall(s, NoCall)
    /\ UNCHANGED hist

FromSafeStringEncoded ==
    /\ op \in {"to_safe_string", "generate_key"}
    /\ FromSafeStringCall(ret.val, Last)
    /\ UNCHANGED hist

Encrypt ==
    /\ Fresh
    /\ \E data \in Texts, key \in Keys, pad_length \in Pads :
          EncryptCall(data, key, pad_length, NoCall)
    /\ UNCHANGED hist

EncryptGenerated ==
    /\ op = "generate_key"
    /\ \E data \in {<<>>, <<CH.h, CH.eacute>>} : EncryptCall(data, ret.val, None, Last)
    /\ UNCHANGED hist

IsEncrypted ==
    /\ Fresh
    /\ \E e \in CraftedCiphertexts : IsEncryptedCall(e, NoCall)
    /\ UNCHANGED hist

IsEncryptedEncrypted ==
    /\ op = "encrypt"
    /\ ~Raised(ret)
    /\ \E e \in Tamper(ret.val) : IsEncryptedCall(e, Last)
    /\ UNCHANGED hist

Decrypt ==
    /\ Fresh
    /\ \E e \in CraftedCiphertexts, key \in Keys : DecryptCall(e, key, NoCall)
    /\ UNCHANGED hist

DecryptEncrypted ==
    /\ op = "encrypt"
    /\ ~Raised(ret)
    /\ \E e \in Tamper(ret.val),
          key \in {arg.key, KeyZero, KeyNonCanonical, KeyOther, KeyNewline} :
          DecryptCall(e, key, Last)
    /\ UNCHANGED hist

Next ==
    \/ GenerateKey
    \/ IsValidKey
    \/ IsValidKeyGenerated
    \/ GetKeys
    \/ ToSafeString
    \/ FromSafeString
    \/ FromSafeStringEncoded
    \/ Encrypt
    \/ EncryptGenerated
    \/ IsEncrypted
    \/ IsEncryptedEncrypted
    \/ Decrypt
    \/ DecryptEncrypted

Spec == Init /\ [][Next]_vars

(***************************************************************************)
(* A client that keeps calling and watches for state carried between       *)
(* calls: hist is the sequence of its calls.                               *)
(***************************************************************************)
TextsC10 == {<<CH.h>>}

KeysC10 == {KeyZero, KeyOther}

PadsC10 == {None, <<0>>}

\* The ciphertexts earlier encrypt calls returned.
Returned ==
    {hist[i].ret.val : i \in {j \in 1..Len(hist) : hist[j].op = "encrypt" /\ ~Raised(hist[j].ret)}}

Observe == hist' = Append(hist, [op |-> op', arg |-> arg', ret |-> ret'])

GenerateKeyAgain ==
    /\ Len(hist) < MaxCalls
    /\ GenerateKeyCall(Rep(0, 32))
    /\ Observe

EncryptAgain ==
    /\ Len(hist) < MaxCalls
    /\ \E data \in TextsC10, key \in KeysC10, pad_length \in PadsC10 :
          EncryptCall(data, key, pad_length, NoCall)
    /\ Observe

DecryptAgain ==
    /\ Len(hist) < MaxCalls
    /\ \E e \in Returned \cup {<<CH.h>>}, key \in KeysC10 : DecryptCall(e, key, NoCall)
    /\ Observe

NextC10 ==
    \/ GenerateKeyAgain
    \/ EncryptAgain
    \/ DecryptAgain

SpecC10 == Init /\ [][NextC10]_vars

(***************************************************************************)
(* Properties.                                                             *)
(***************************************************************************)
\* key is exactly 52 characters of [a-z2-7] followed by 9999.
PatternKey(key) == Len(key) = 56 /\ KEY_PATTERN(key, 1)

\* The text has a UTF-8 encoding.
Encodable(s) == ~Raised(encode_utf8(s))

Utf8Len(s) == Len(encode_utf8(s).val)

\* The text has a UTF-8 encoding that does not end in a NUL byte.
NoTrailingNul(s) ==
    /\ Encodable(s)
    /\ rstrip_nul(encode_utf8(s).val) = encode_utf8(s).val

PadFits(s, pad_length) == pad_length = None \/ Utf8Len(s) <= pad_length[1]

\* The call decrypts, with the key of the encrypt call before it, exactly
\* what that call returned.
DecryptsOwnOutput ==
    /\ op = "decrypt"
    /\ prev.op = "encrypt"
    /\ arg.encoded_ciphertext = prev.ret.val

\* C1: for every key accepted by is_valid_key, every text whose UTF-8
\* encoding does not end in NUL and every pad_length that is unset or not
\* smaller than the encoded length, encrypt returns a ciphertext and decrypt
\* of it with the same key returns exactly the text.
C1_RoundTrip ==
    /\ (/\ op = "encrypt"
        /\ is_valid_key(arg.key)
        /\ NoTrailingNul(arg.data)
        /\ PadFits(arg.data, arg.pad_length))
       => ~Raised(ret)
    /\ (/\ DecryptsOwnOutput
        /\ arg.key = prev.arg.key
        /\ is_valid_key(arg.key)
        /\ NoTrailingNul(prev.arg.data))
       => ret = Return(prev.arg.data)

\* The round trip for keys that are exactly of the key pattern.
RoundTripPatternKeys ==
    /\ (/\ op = "encrypt"
        /\ PatternKey(arg.key)
        /\ NoTrailingNul(arg.data)
        /\ PadFits(arg.data, arg.pad_length))
       => ~Raised(ret)
    /\ (/\ DecryptsOwnOutput
        /\ arg.key = prev.arg.key
        /\ PatternKey(arg.key)
        /\ NoTrailingNul(prev.arg.data))
       => ret = Return(prev.arg.data)

\* C2: for two keys of the key pattern that differ as strings, decrypt with
\* the second of what encrypt returned under the first (no pad_length)
\* raises InvalidKeyException and returns no plaintext.
C2_WrongKeyDetected ==
    (/\ DecryptsOwnOutput
     /\ prev.arg.pad_length = None
     /\ PatternKey(prev.arg.key)
     /\ PatternKey(arg.key)
     /\ arg.key # prev.arg.key)
    => ret = InvalidKeyError

\* Wrong-key detection for keys that decode to different bytes.
WrongKeyBytesDetected ==
    (/\ DecryptsOwnOutput
     /\ PatternKey(prev.arg.key)
     /\ PatternKey(arg.key)
     /\ from_safe_string(arg.key) # from_safe_string(prev.arg.key))
    => ret = InvalidKeyError

\* The call is encrypt(s, k, pad_length=N) with a key is_valid_key accepts.
PaddedEncrypt ==
    /\ op = "encrypt"
    /\ is_valid_key(arg.key)
    /\ Encodable(arg.data)
    /\ arg.pad_length # None

\* C3 as stated: when the encoded text is longer than N, encrypt fails with
\* the padding error, whose kind (exception class) is distinct from those of
\* the format, decoding and invalid-key errors, and returns no ciphertext;
\* otherwise it never fails with that error.
C3_PaddingErrorDistinctKind ==
    PaddedEncrypt =>
        IF Utf8Len(arg.data) > arg.pad_length[1]
        THEN /\ ret = PaddingError
             /\ ret.exc \notin {FormatError.exc, InvalidKeyError.exc} \cup DecodingErrorClasses
        ELSE ret # PaddingError

\* C3 as amended: when the encoded text is longer than N, encrypt fails with
\* ValueError("Cannot pad data ..."), of a class other than
\* InvalidKeyException and the classes of the codec errors, and returns no
\* ciphertext; otherwise it never fails with that error.
C3_PaddingOverflow ==
    PaddedEncrypt =>
        IF Utf8Len(arg.data) > arg.pad_length[1]
        THEN /\ ret = PaddingError
             /\ ret.exc \notin {InvalidKeyError.exc} \cup DecodingErrorClasses
        ELSE ret # PaddingError

C3_Witness ==
    /\ PaddedEncrypt
    /\ Utf8Len(arg.data) = arg.pad_length[1] + 1
    /\ ret = PaddingError

\* C4: decrypt fails with the header error exactly when is_encrypted is
\* false of its input, whatever the key and the body.
C4_HeaderCheckedFirst ==
    op = "decrypt" => (ret = FormatError <=> ~is_encrypted(arg.encoded_ciphertext))

C4_Witness ==
    /\ op = "decrypt"
    /\ ~is_encrypted(arg.encoded_ciphertext)
    /\ Raised(from_safe_string(arg.key))
    /\ ret = FormatError

\* Characters of [a-z2-7] followed by zero or more 9.
SafeForm(s) ==
    \E k \in 0..Len(s) :
        /\ \A i \in 1..k : KeyChar(s[i])
        /\ \A i \in (k + 1)..Len(s) : s[i] = CH.nine

\* C5: to_safe_string returns only characters of [a-z2-7] followed by zero
\* or more 9, and from_safe_string of it returns the bytes encoded, for byte
\* sequences of every length.
C5_CodecRoundTrip ==
    /\ op = "to_safe_string" => SafeForm(ret.val)
    /\ (op = "from_safe_string" /\ prev.op = "to_safe_string")
       => ret = Return(prev.arg.unsafe_bytes)

C5_Witness ==
    /\ op = "from_safe_string"
    /\ prev.op = "to_safe_string"
    /\ Len(prev.arg.unsafe_bytes) % 5 = 4
    /\ prev.arg.unsafe_bytes[4] = 255
    /\ ret = Return(prev.arg.unsafe_bytes)

\* C6: is_valid_key is true exactly of the 56-character strings made of 52
\* characters of [a-z2-7] followed by 9999.
C6_IsValidKeyExact ==
    op = "is_valid_key" => (ret.val <=> PatternKey(arg.key))

\* C7: every string is_valid_key accepts decodes through from_safe_string to
\* exactly 32 bytes, and keying the cipher in encrypt never fails for it.
C7_ValidKeyDecodes ==
    /\ (op = "from_safe_string" /\ is_valid_key(arg.safe_string))
       => (~Raised(ret) /\ Len(ret.val) = 32)
    /\ (op = "encrypt" /\ is_valid_key(arg.key) /\ ~Raised(encode_and_pad(arg.data, arg.pad_length)))
       => ~Raised(ret)

\* C8: whatever the 32 random bytes, generate_key returns 52 characters of
\* [a-z2-7] followed by 9999, is_valid_key accepts it and from_safe_string
\* of it gives back the 32 bytes.
C8_GeneratedKeyValid ==
    /\ op = "generate_key" => PatternKey(ret.val)
    /\ (op = "is_valid_key" /\ prev.op = "generate_key") => ret.val
    /\ (op = "from_safe_string" /\ prev.op = "generate_key")
       => ret = Return(prev.arg.urandom)

C8_Witness ==
    /\ op = "from_safe_string"
    /\ prev.op = "generate_key"
    /\ prev.arg.urandom[32] = 255
    /\ ret = Return(prev.arg.urandom)

\* Every substring of the document that matches KEY_PATTERN, by position.
RECURSIVE MatchesIn(_, _)
MatchesIn(document, positions) ==
    IF positions = {} THEN <<>>
    ELSE <<SubSeq(document, Min(positions), Min(positions) + 55)>>
         \o MatchesIn(document, positions \ {Min(positions)})

AllMatches(document) ==
    MatchesIn(document, {i \in 1..Len(document) :
                            /\ i + 55 <= Len(document)
                            /\ \A j \in 0..51 : KeyChar(document[i + j])
                            /\ \A j \in 52..55 : document[i + j] = CH.nine})

\* The document is prefix + k + suffix, prefix and suffix hold no match and
\* the characters next to k are outside [a-z2-7].
Embedded(pieces) ==
    /\ Len(pieces) = 3
    /\ get_keys(pieces[1]) = <<>>
    /\ get_keys(pieces[3]) = <<>>
    /\ pieces[1] # <<>> => ~KeyChar(pieces[1][Len(pieces[1])])
    /\ pieces[3] # <<>> => ~KeyChar(pieces[3][1])

\* C9: get_keys returns, in order, every substring that matches the key
\* pattern, each accepted by is_valid_key; for a valid key k embedded as
\* prefix + k + suffix the result is exactly <<k>>.
C9_GetKeys ==
    op = "get_keys" =>
        /\ ret.val = AllMatches(Concat(arg.pieces))
        /\ \A i \in 1..Len(ret.val) : is_valid_key(ret.val[i])
        /\ (Embedded(arg.pieces) /\ is_valid_key(arg.pieces[2]))
           => ret.val = <<arg.pieces[2]>>

\* The same for a k that is exactly of the key pattern.
GetKeysPatternKey ==
    op = "get_keys" =>
        /\ ret.val = AllMatches(Concat(arg.pieces))
        /\ \A i \in 1..Len(ret.val) : is_valid_key(ret.val[i])
        /\ (Embedded(arg.pieces) /\ PatternKey(arg.pieces[2]))
           => ret.val = <<arg.pieces[2]>>

\* Bytes the cipher object of the last call has processed since the counter
\* value 1.
Processed == (cipherObj.counter - 1) * 16 - Len(cipherObj.remaining)

\* C10: whatever calls came before, encrypt and decrypt calls with the same
\* arguments return the same result, and the cipher of a call starts at the
\* same counter: it has processed the bytes of that call and no others.
C10_Stateless ==
    /\ \A i, j \in 1..Len(hist) :
          (/\ hist[i].op = hist[j].op
           /\ hist[i].op \in {"encrypt", "decrypt"}
           /\ hist[i].arg = hist[j].arg)
          => hist[i].ret = hist[j].ret
    /\ (op = "encrypt" /\ ~Raised(ret))
       => Processed = 16 + Len(encode_and_pad(arg.data, arg.pad_length).val)

C10_Witness ==
    /\ Len(hist) >= 3
    /\ hist[1].op = "encrypt"
    /\ ~Raised(hist[1].ret)
    /\ hist[2].op = "decrypt"
    /\ hist[3] = hist[1]

=============================================================================
